---- MODULE Spec2Model ----
(***************************************************************************)
(* Model of the Unihedron SQM logger: the serial polling thread and the    *)
(* frame parser of sqm/sqm.py (UnihedronSQM), the averaging/history/log    *)
(* logic of sqm/web.py (Application) and the export queue of               *)
(* sqm/influx.py (Influx).                                                 *)
(*                                                                         *)
(* Numbers the program holds as Python floats are modelled as exact        *)
(* rationals <<n, d>> in lowest terms with d > 0.                          *)
(***************************************************************************)
EXTENDS Integers, Sequences, FiniteSets, TLC

VARIABLES
    \* ---- UnihedronSQM (sqm/sqm.py) ----
    pc,             \* position of _poll_thread ("idle" before start_polling)
    stack,          \* call frames above _poll_thread: _connect_serial / read_*
    ret,            \* {} while running; {[v |-> x]} when a callee just returned x
    conn,           \* self._conn: "none" | "open" | "closed"
    closing,        \* self._closing event
    stopState,      \* stop_polling: "no" | "joining" | "returned"
    serial_errors,  \* local of _poll_thread
    sleep_time,     \* local of _poll_thread
    location,       \* self.location is not None
    \* ---- observation of the polling thread ----
    endedBy,        \* why the thread ended: "none" | "stop" | "init" | "polling"
    cbReport,       \* {} or {the Report last passed to self._callback}
    cbParsed,       \* did the reading request of that cycle return a parsed frame
    sent,           \* writes of the command since _poll_thread called read_data()
    inited,         \* tags of the replies accepted on the connection now open
    accepted,       \* {} or {[kind, lead]}: the frame the last read_* step accepted
    \* ---- Application (sqm/web.py) ----
    appUp,          \* the Application was constructed (__init__ did not raise)
    current,        \* self.current
    buffer,         \* self.buffer
    history,        \* self.history
    logConfigured,  \* self.log_file is not None
    logFile,        \* the file at self.log_file: [exists, lines]
    now,            \* the clock datetime.utcnow() reads, in ticks
    \* ---- the scheduler thread inside sched_callback ----
    schedPc,        \* "idle" | "mean" | "history" | "log" | "clear"
    schedK,         \* the column the dict comprehension computes next
    average,        \* local of sched_callback
    timeStr,        \* local of sched_callback (seconds)
    \* ---- observation of the application ----
    appended,       \* every Report appended to self.history since construction
    flushes,        \* every non-empty flush so far: [sec, average, n]
    logWasAbsent,   \* the log file did not exist at the start
    averagedOver,   \* per column, how many buffered reports the last mean read
    clearedLen,     \* how many buffered reports the last clear removed
    \* ---- process_data applied to one frame (sqm/sqm.py) ----
    pdIn,           \* the numeric fields of the frame
    pdOut,          \* {} or {the dict process_data returned}
    \* ---- Influx (sqm/influx.py) ----
    infClient,      \* self._client is not None
    infQueue,       \* self._queue
    infClosing,     \* self._closing event
    infPc,          \* position of _send_measurements ("idle" before start)
    infHeld,        \* {} or {the report _send_measurements took off the queue}
    infStop,        \* stop: "no" | "joining" | "returned"
    \* ---- observation of the export ----
    infWritten,     \* every [report, record] write_api.write accepted
    infHanded,      \* every report passed to __call__ with a client configured
    op              \* name of the operation that made the last step

pollVars == <<pc, stack, ret, conn, closing, stopState, serial_errors, sleep_time,
              location, endedBy, cbReport, cbParsed>>

appVars == <<appUp, current, buffer, history, logConfigured, logFile, now, appended,
             flushes, logWasAbsent>>

schedVars == <<schedPc, schedK, average, timeStr, averagedOver, clearedLen>>

pollObs == <<sent, inited, accepted>>

parseVars == <<pdIn, pdOut>>

influxVars == <<infClient, infQueue, infClosing, infPc, infHeld, infStop, infWritten,
                infHanded>>

vars == <<pollVars, pollObs, appVars, schedVars, parseVars, influxVars, op>>

-----------------------------------------------------------------------------
(* Bounds of the model *)

\* deepest nesting of _connect_serial / read_* calls explored
MaxDepth == 4
\* most consecutive failed connection attempts explored
MaxSerialErrors == 112
\* most reports handed to the Influx object
MaxReports == 3

-----------------------------------------------------------------------------
(* Program constants *)

\* self._thread_sleep
ThreadSleep == 1
\* self._max_thread_sleep
MaxThreadSleep == 900
\* the failure count modulus of the backoff, serial_errors % 10
BackoffEvery == 10
\* tries=10 of the initial calls in _connect_serial
InitTries == 10
\* default tries=1 of read_data() as called by _poll_thread
PollTries == 1
\* the frequency below which process_data uses the period
LowFreq == 30

COLUMNS == <<"temp_sensor", "freq_sensor", "ticks_uC", "sky_brightness">>

ColumnSet == {COLUMNS[i] : i \in 1..Len(COLUMNS)}

-----------------------------------------------------------------------------
(* Exact rationals standing for float values *)

RECURSIVE GCD(_, _)
GCD(a, b) == IF b = 0 THEN a ELSE GCD(b, a % b)

Abs(x) == IF x < 0 THEN -x ELSE x

Rat(n, d) ==
    LET s == IF d < 0 THEN -1 ELSE 1
        g == GCD(Abs(n), Abs(d))
    IN  <<(s * n) \div g, (s * d) \div g>>

RInt(k) == <<k, 1>>

RLess(a, b) == a[1] * b[2] < b[1] * a[2]

RAdd(a, b) == Rat(a[1] * b[2] + b[1] * a[2], a[2] * b[2])

RDiv(a, b) == Rat(a[1] * b[2], a[2] * b[1])

-----------------------------------------------------------------------------
(* Report (sqm/sqm.py) *)

ZeroValues == [c \in ColumnSet |-> RInt(0)]

\* the variant that keeps values=None as an empty mapping
ReportWithoutDefaultValues(values, dt, utcnow) ==
    [values |-> IF values = {} THEN <<>> ELSE CHOOSE v \in values : TRUE,
     time   |-> IF dt = {} THEN utcnow ELSE CHOOSE t \in dt : TRUE]

\* Report(values, dt): values is {} for None or {v}; dt likewise
Report(values, dt, utcnow) ==
    [values |-> IF values = {} THEN ZeroValues ELSE CHOOSE v \in values : TRUE,
     time   |-> IF dt = {} THEN utcnow ELSE CHOOSE t \in dt : TRUE]

-----------------------------------------------------------------------------
(* Device replies, as read_buffer returns them *)

Tags == {"i", "c", "r"}

NoFields == [sky |-> RInt(0), freq |-> RInt(0), ticks |-> RInt(0),
             period |-> RInt(0), temp |-> RInt(0)]

\* "r, 19.80m,0012.50Hz,00125278,000.0000s, 024.8C\n"
FieldsA == [sky |-> Rat(1980, 100), freq |-> Rat(1250, 100), ticks |-> RInt(125278),
            period |-> RInt(0), temp |-> Rat(248, 10)]
\* "r, 21.00m,0000.40Hz,00000000,002.5000s, 010.0C\n"
FieldsB == [sky |-> RInt(21), freq |-> Rat(40, 100), ticks |-> RInt(0),
            period |-> Rat(25, 10), temp |-> RInt(10)]

\* A reply: none = readline raised (read_buffer returns None); otherwise a
\* decoded line with its leading character, the tag characters it contains,
\* the process_* functions that parse it without raising, and its fields.
Msg(none, lead, has, parses, fields) ==
    [none |-> none, lead |-> lead, has |-> has, parses |-> parses, fields |-> fields]

Msgs ==
    { Msg(TRUE,  "",  {},    {},    NoFields),      \* readline raised
      Msg(FALSE, "",  {},    {},    NoFields),      \* "" (timeout)
      Msg(FALSE, "x", {},    {},    NoFields),      \* "xyz\n"
      Msg(FALSE, "i", {"i"}, {"i"}, NoFields),      \* "i,00000004,00000003,00000001,00000413\n"
      Msg(FALSE, "i", {"i"}, {},    NoFields),      \* "i,4,3\n"
      Msg(FALSE, "c", {"c"}, {"c"}, NoFields),      \* "c,00000019.84m,0000151.517s, 022.2C,00000008.71m, 023.2C\n"
      Msg(FALSE, "c", {"c"}, {},    NoFields),      \* "c,abc\n"
      Msg(FALSE, "r", {"r"}, {"r"}, FieldsA),
      Msg(FALSE, "r", {"r"}, {"r"}, FieldsB),
      Msg(FALSE, "r", {"r"}, {},    NoFields),      \* "r,abc\n"
      Msg(FALSE, "x", {"r"}, {"r"}, FieldsA),       \* "\x00r, 19.80m,...\n"
      Msg(FALSE, "e", {"r"}, {},    NoFields) }     \* "error\n"

\* the variant whose threshold test is freq_sensor <= 30
ProcessDataThresholdInclusive(f) ==
    LET freq_sensor == IF ~RLess(RInt(LowFreq), f.freq) /\ RLess(RInt(0), f.period)
                       THEN RDiv(RInt(1), f.period)
                       ELSE f.freq
    IN  [c \in ColumnSet |->
            CASE c = "temp_sensor"    -> f.temp
              [] c = "freq_sensor"    -> freq_sensor
              [] c = "ticks_uC"       -> f.ticks
              [] c = "sky_brightness" -> f.sky]

\* process_data
ProcessData(f) ==
    LET freq_sensor == IF RLess(f.freq, RInt(LowFreq)) /\ RLess(RInt(0), f.period)
                       THEN RDiv(RInt(1), f.period)
                       ELSE f.freq
    IN  [c \in ColumnSet |->
            CASE c = "temp_sensor"    -> f.temp
              [] c = "freq_sensor"    -> freq_sensor
              [] c = "ticks_uC"       -> f.ticks
              [] c = "sky_brightness" -> f.sky]

-----------------------------------------------------------------------------
(* The polling thread, sqm/sqm.py *)

Frame(fn, kind, tries, phase) ==
    [fn |-> fn, kind |-> kind, tries |-> tries, phase |-> phase]

Top == stack[Len(stack)]

Pop == SubSeq(stack, 1, Len(stack) - 1)

Push(f) == Append(stack, f)

ReplaceTop(f) == [stack EXCEPT ![Len(stack)] = f]

\* the delay after a failed connection attempt, with serial_errors already
\* incremented (the dangling-else variant resets on every other failure)
BackoffDanglingElse(errors, delay) ==
    IF errors % BackoffEvery = 0
    THEN IF delay < MaxThreadSleep THEN delay * 2 ELSE delay
    ELSE ThreadSleep

BackoffDelay(errors, delay) ==
    IF errors % BackoffEvery = 0
    THEN IF delay < MaxThreadSleep THEN delay * 2 ELSE ThreadSleep
    ELSE delay

\* a serial.SerialException propagating out of the call stack: caught only
\* by the try around _connect_serial in _poll_thread
RaiseSerial(newConn) ==
    /\ conn' = newConn
    /\ stack' = <<>>
    /\ ret' = {}
    /\ IF pc = "connect"
       THEN /\ serial_errors < MaxSerialErrors
            /\ serial_errors' = serial_errors + 1
            /\ sleep_time' = BackoffDelay(serial_errors + 1, sleep_time)
            /\ pc' = "backoff"
            /\ endedBy' = endedBy
            /\ op' = "connect_failed"
       ELSE /\ pc' = "dead"
            /\ endedBy' = "polling"
            /\ op' = "thread_died"
            /\ UNCHANGED <<serial_errors, sleep_time>>
    /\ UNCHANGED <<closing, stopState, location, cbReport, cbParsed>>

\* any other exception (TypeError, ValueError, IndexError): never caught
Crash ==
    /\ stack' = <<>>
    /\ ret' = {}
    /\ pc' = "dead"
    /\ endedBy' = IF pc = "connect" THEN "init" ELSE "polling"
    /\ op' = "thread_died"
    /\ UNCHANGED <<conn, closing, stopState, location, serial_errors, sleep_time,
                   cbReport, cbParsed>>

start_polling ==
    /\ pc = "idle"
    /\ pc' = "loop"
    /\ closing' = FALSE
    /\ op' = "start_polling"
    /\ UNCHANGED <<stack, ret, conn, stopState, serial_errors, sleep_time, location,
                   endedBy, cbReport, cbParsed>>
    /\ UNCHANGED pollObs
    /\ UNCHANGED <<appVars, schedVars, parseVars, influxVars>>

\* stop_polling, first half: self._closing.set()
stop_polling ==
    /\ pc # "idle"
    /\ stopState = "no"
    /\ closing' = TRUE
    /\ stopState' = "joining"
    /\ op' = "stop_polling"
    /\ UNCHANGED <<pc, stack, ret, conn, serial_errors, sleep_time, location,
                   endedBy, cbReport, cbParsed>>
    /\ UNCHANGED pollObs
    /\ UNCHANGED <<appVars, schedVars, parseVars, influxVars>>

\* stop_polling, second half: self._thread.join() returns
stop_polling_join ==
    /\ stopState = "joining"
    /\ pc \in {"done", "dead"}
    /\ stopState' = "returned"
    /\ op' = "stop_polling_join"
    /\ UNCHANGED <<pc, stack, ret, conn, closing, serial_errors, sleep_time, location,
                   endedBy, cbReport, cbParsed>>
    /\ UNCHANGED pollObs
    /\ UNCHANGED <<appVars, schedVars, parseVars, influxVars>>

\* the while test and what follows a set event: self._conn.close()
PollExit ==
    /\ pc = "loop"
    /\ closing
    /\ IF conn = "none"
       THEN pc' = "dead" /\ conn' = conn      \* AttributeError on None
       ELSE pc' = "done" /\ conn' = "closed"
    /\ endedBy' = "stop"
    /\ op' = "poll_exit"
    /\ UNCHANGED <<stack, ret, closing, stopState, serial_errors, sleep_time, location,
                   cbReport, cbParsed>>
    /\ accepted' = {}
    /\ UNCHANGED <<sent, inited>>
    /\ UNCHANGED <<appVars, schedVars, parseVars, influxVars>>

\* the variant without the continue: after the sleep the cycle goes on
PollSunGateWithoutContinue ==
    /\ pc = "loop"
    /\ ~closing
    /\ location
    /\ IF conn = "none"
       THEN /\ pc' = "connect"
            /\ stack' = Push(Frame("connect", "open", 0, "start"))
       ELSE /\ pc' = "check"
            /\ stack' = stack
    /\ op' = "sun_gate"
    /\ UNCHANGED <<ret, conn, closing, stopState, serial_errors, sleep_time, location,
                   endedBy, cbReport, cbParsed>>
    /\ UNCHANGED pollObs
    /\ UNCHANGED <<appVars, schedVars, parseVars, influxVars>>

\* the sun is above max_sun_alt: sleep 30 and continue
PollSunGate ==
    /\ pc = "loop"
    /\ ~closing
    /\ location
    /\ op' = "sun_gate"
    /\ UNCHANGED pollVars
    /\ UNCHANGED pollObs
    /\ UNCHANGED <<appVars, schedVars, parseVars, influxVars>>

\* the body of the loop up to the connection test
PollBegin ==
    /\ pc = "loop"
    /\ ~closing
    /\ IF conn = "none"
       THEN /\ pc' = "connect"
            /\ stack' = Push(Frame("connect", "open", 0, "start"))
       ELSE /\ pc' = "check"
            /\ stack' = stack
    /\ op' = "poll_begin"
    /\ UNCHANGED <<ret, conn, closing, stopState, serial_errors, sleep_time, location,
                   endedBy, cbReport, cbParsed>>
    /\ accepted' = {}
    /\ UNCHANGED <<sent, inited>>
    /\ UNCHANGED <<appVars, schedVars, parseVars, influxVars>>

\* _connect_serial up to its first initial call
ConnectOpen ==
    /\ stack # <<>>
    /\ ret = {}
    /\ Top.fn = "connect"
    /\ Top.kind = "open"
    /\ \/ /\ Len(stack) < MaxDepth
          /\ conn' = "open"
          /\ stack' = Append(ReplaceTop(Frame("connect", "i", 0, "start")),
                             Frame("read", "i", InitTries, "start"))
          /\ op' = "serial_open"
          /\ UNCHANGED <<pc, ret, closing, stopState, serial_errors, sleep_time,
                         location, endedBy, cbReport, cbParsed>>
       \/ RaiseSerial(IF conn = "none" THEN "none" ELSE "closed")
    /\ inited' = {}
    /\ accepted' = {}
    /\ UNCHANGED sent
    /\ UNCHANGED <<appVars, schedVars, parseVars, influxVars>>

\* one of read_metadata / read_calibration / read_data: write the command,
\* read one line, test it
ReadRequest ==
    /\ stack # <<>>
    /\ ret = {}
    /\ Top.fn = "read"
    /\ Top.phase = "start"
    /\ sent' = IF pc = "read" /\ Top.kind = "r" THEN sent + 1 ELSE sent
    /\ \/ /\ RaiseSerial(conn)                      \* write raises
          /\ accepted' = {}
          /\ UNCHANGED inited
       \/ /\ conn = "open"
          /\ \E msg \in Msgs :
                IF msg.none
                THEN /\ Crash                       \* "r" in None
                     /\ accepted' = {}
                     /\ UNCHANGED inited
                ELSE IF Top.kind \in msg.has
                THEN /\ accepted' = {[kind |-> Top.kind, lead |-> msg.lead]}
                     /\ IF Top.kind \in msg.parses
                        THEN /\ stack' = Pop
                             /\ ret' = {[v |-> IF Top.kind = "r"
                                              THEN {ProcessData(msg.fields)}
                                              ELSE {}]}
                             /\ inited' = inited \cup ({Top.kind} \ {"r"})
                             /\ op' = "read_ok"
                             /\ UNCHANGED <<pc, conn, closing, stopState,
                                            serial_errors, sleep_time, location,
                                            endedBy, cbReport, cbParsed>>
                        ELSE /\ Crash                \* process_* raises
                             /\ UNCHANGED inited
                ELSE /\ accepted' = {}
                     /\ UNCHANGED inited
                     /\ IF Top.tries > 0
                        THEN /\ Len(stack) < MaxDepth
                             /\ stack' = Append(
                                    ReplaceTop([Top EXCEPT !.phase = "reconnect"]),
                                    Frame("connect", "open", 0, "start"))
                             /\ op' = "read_retry"
                             /\ UNCHANGED <<pc, ret, conn, closing, stopState,
                                            serial_errors, sleep_time, location,
                                            endedBy, cbReport, cbParsed>>
                        ELSE /\ stack' = Pop
                             /\ ret' = {[v |-> {}]}
                             /\ op' = "read_gave_up"
                             /\ UNCHANGED <<pc, conn, closing, stopState,
                                            serial_errors, sleep_time, location,
                                            endedBy, cbReport, cbParsed>>
    /\ UNCHANGED <<appVars, schedVars, parseVars, influxVars>>

\* a callee returned into _connect_serial: the next initial call, or return
ConnectResume ==
    /\ stack # <<>>
    /\ ret # {}
    /\ Top.fn = "connect"
    /\ IF Top.kind = "r"
       THEN /\ stack' = Pop
            /\ ret' = {[v |-> {}]}
       ELSE /\ stack' = Append(ReplaceTop([Top EXCEPT !.kind = IF Top.kind = "i"
                                                               THEN "c" ELSE "r"]),
                               Frame("read", IF Top.kind = "i" THEN "c" ELSE "r",
                                     InitTries, "start"))
            /\ ret' = {}
    /\ op' = "connect_resume"
    /\ UNCHANGED <<pc, conn, closing, stopState, serial_errors, sleep_time, location,
                   endedBy, cbReport, cbParsed>>
    /\ accepted' = {}
    /\ UNCHANGED <<sent, inited>>
    /\ UNCHANGED <<appVars, schedVars, parseVars, influxVars>>

\* a callee returned into read_*: after the reconnect comes the recursive
\* call with tries - 1; after the recursive call the function returns
ReadResume ==
    /\ stack # <<>>
    /\ ret # {}
    /\ Top.fn = "read"
    /\ IF Top.phase = "reconnect"
       THEN /\ stack' = Append(ReplaceTop([Top EXCEPT !.phase = "retry"]),
                               Frame("read", Top.kind, Top.tries - 1, "start"))
            /\ ret' = {}
       ELSE /\ stack' = Pop
            /\ ret' = IF Top.kind = "r" THEN ret ELSE {[v |-> {}]}
    /\ op' = "read_resume"
    /\ UNCHANGED <<pc, conn, closing, stopState, serial_errors, sleep_time, location,
                   endedBy, cbReport, cbParsed>>
    /\ accepted' = {}
    /\ UNCHANGED <<sent, inited>>
    /\ UNCHANGED <<appVars, schedVars, parseVars, influxVars>>

\* _connect_serial returned into the try block: reset sleep time
ConnectDone ==
    /\ pc = "connect"
    /\ stack = <<>>
    /\ ret # {}
    /\ ret' = {}
    /\ serial_errors' = 0
    /\ sleep_time' = ThreadSleep
    /\ pc' = "check"
    /\ op' = "connect_ok"
    /\ UNCHANGED <<stack, conn, closing, stopState, location, endedBy, cbReport,
                   cbParsed>>
    /\ accepted' = {}
    /\ UNCHANGED <<sent, inited>>
    /\ UNCHANGED <<appVars, schedVars, parseVars, influxVars>>

\* self._closing.wait(sleep_time) returns
PollBackoff ==
    /\ pc = "backoff"
    /\ pc' = "check"
    /\ op' = "backoff_wait"
    /\ UNCHANGED <<stack, ret, conn, closing, stopState, serial_errors, sleep_time,
                   location, endedBy, cbReport, cbParsed>>
    /\ accepted' = {}
    /\ UNCHANGED <<sent, inited>>
    /\ UNCHANGED <<appVars, schedVars, parseVars, influxVars>>

\* if self._conn is not None: data = self.read_data()
PollCheck ==
    /\ pc = "check"
    /\ IF conn # "none"
       THEN /\ pc' = "read"
            /\ stack' = Push(Frame("read", "r", PollTries, "start"))
       ELSE /\ pc' = "sleep"
            /\ stack' = stack
    /\ op' = "poll_check"
    /\ UNCHANGED <<ret, conn, closing, stopState, serial_errors, sleep_time, location,
                   endedBy, cbReport, cbParsed>>
    /\ sent' = 0
    /\ accepted' = {}
    /\ UNCHANGED inited
    /\ UNCHANGED <<appVars, schedVars, parseVars, influxVars>>

\* read_data returned: self._callback(Report(data))
PollCallback ==
    /\ pc = "read"
    /\ stack = <<>>
    /\ \E r \in ret :
          /\ cbReport' = {Report(r.v, {}, now)}
          /\ cbParsed' = (r.v # {})
    /\ ret' = {}
    /\ pc' = "sleep"
    /\ op' = "callback"
    /\ UNCHANGED <<stack, conn, closing, stopState, serial_errors, sleep_time, location,
                   endedBy>>
    /\ sent' = 0
    /\ accepted' = {}
    /\ UNCHANGED inited
    /\ UNCHANGED <<appVars, schedVars, parseVars, influxVars>>

\* time.sleep(self.interval)
PollSleep ==
    /\ pc = "sleep"
    /\ pc' = "loop"
    /\ op' = "poll_sleep"
    /\ UNCHANGED <<stack, ret, conn, closing, stopState, serial_errors, sleep_time,
                   location, endedBy, cbReport, cbParsed>>
    /\ accepted' = {}
    /\ UNCHANGED <<sent, inited>>
    /\ UNCHANGED <<appVars, schedVars, parseVars, influxVars>>

PollInit ==
    /\ pc = "idle"
    /\ stack = <<>>
    /\ ret = {}
    /\ conn = "none"
    /\ closing = FALSE
    /\ stopState = "no"
    /\ serial_errors = 0
    /\ sleep_time = ThreadSleep
    /\ location \in BOOLEAN
    /\ endedBy = "none"
    /\ cbReport = {}
    /\ cbParsed = FALSE
    /\ sent = 0
    /\ inited = {}
    /\ accepted = {}

PollNext ==
    \/ start_polling
    \/ stop_polling
    \/ stop_polling_join
    \/ PollExit
    \/ PollSunGate
    \/ PollBegin
    \/ ConnectOpen
    \/ ReadRequest
    \/ ConnectResume
    \/ ReadResume
    \/ ConnectDone
    \/ PollBackoff
    \/ PollCheck
    \/ PollCallback
    \/ PollSleep

-----------------------------------------------------------------------------
(* Application, sqm/web.py *)

\* most reports buffered between two flushes
MaxBuf == 2
\* most data rows of a log file left by earlier runs
MaxPriorRows == 12
\* most non-empty flushes of one run
MaxFlushes == 2
\* clock ticks per second: strftime("%Y-%m-%dT%H:%M:%S") drops the fraction
TicksPerSec == 2

\* the capacity in _crop_history
HistoryCap == 10

\* strftime / strptime with "%Y-%m-%dT%H:%M:%S"
Strftime(t) == t \div TicksPerSec

Strptime(sec) == sec * TicksPerSec

\* The clock starts after every row of an earlier run. utcnow() has
\* microsecond resolution and a flush takes longer than that, so every
\* flush reads a later clock value than the one before: a flush takes one
\* tick. Two flushes may still fall into the same second.
StartTime == Strptime(MaxPriorRows \div 2 + 1)

MaxTime == StartTime + MaxFlushes

Values(temp, freq, ticks, sky) ==
    [c \in ColumnSet |->
        CASE c = "temp_sensor"    -> temp
          [] c = "freq_sensor"    -> freq
          [] c = "ticks_uC"       -> ticks
          [] c = "sky_brightness" -> sky]

\* the values of the reports handed to Application.callback
RawValues ==
    { Values(Rat(2480, 100), Rat(1250, 100), RInt(125278), RInt(19)),
      Values(Rat(2481, 100), Rat(40, 100),   RInt(0),      RInt(21)) }

(* The log file: a sequence of lines. A line is the header, a data row
   (time in seconds, each value in hundredths, as "{:.2f}" writes it), or a
   malformed line: "short" has another number of fields than five, "badnum"
   has five fields one of which float() rejects, "badtime" has five fields
   and a time strptime rejects. *)
Line(kind, sec, vals) == [kind |-> kind, sec |-> sec, vals |-> vals]

NoVals == [c \in ColumnSet |-> 0]

\* f"time,{','.join(COLUMNS)}\n"
HeaderLine == Line("header", 0, NoVals)

AbsentFile == [exists |-> FALSE, lines |-> <<>>]

File(lines) == [exists |-> TRUE, lines |-> lines]

\* the variant that formats with one decimal, "{:.1f}"
Round2OneDecimal(x) ==
    LET q == (10 * x[1]) \div x[2]
        r == (10 * x[1]) % x[2]
    IN  IF 2 * r < x[2] THEN {10 * q}
        ELSE IF 2 * r > x[2] THEN {10 * (q + 1)}
        ELSE {10 * q, 10 * (q + 1)}

\* "{:.2f}".format(x): the nearest hundredth; on an exact decimal tie the
\* binary float lies on either side
Round2(x) ==
    LET q == (100 * x[1]) \div x[2]
        r == (100 * x[1]) % x[2]
    IN  IF 2 * r < x[2] THEN {q}
        ELSE IF 2 * r > x[2] THEN {q + 1}
        ELSE {q, q + 1}

\* the lines fmt.format(time=time, **average) can produce
FormatRow(sec, avg) ==
    { Line("row", sec, Values(t, f, k, b)) :
        t \in Round2(avg["temp_sensor"]), f \in Round2(avg["freq_sensor"]),
        k \in Round2(avg["ticks_uC"]), b \in Round2(avg["sky_brightness"]) }

\* np.mean over one column of the buffer
RECURSIVE SumOf(_, _)
SumOf(buf, c) ==
    IF buf = <<>> THEN RInt(0) ELSE RAdd(buf[1].values[c], SumOf(Tail(buf), c))

\* the variant that sums without dividing
MeanOfWithoutDivision(buf, c) == SumOf(buf, c)

MeanOf(buf, c) == RDiv(SumOf(buf, c), RInt(Len(buf)))

\* sorted(history, key=time, reverse=True): stable, so a report goes after
\* every report whose time is not smaller
RECURSIVE InsertDesc(_, _)
InsertDesc(h, r) ==
    IF h = <<>> THEN <<r>>
    ELSE IF h[1].time >= r.time THEN <<h[1]>> \o InsertDesc(Tail(h), r)
    ELSE <<r>> \o h

RECURSIVE SortDesc(_)
SortDesc(h) ==
    IF h = <<>> THEN <<>>
    ELSE InsertDesc(SortDesc(SubSeq(h, 1, Len(h) - 1)), h[Len(h)])

\* the variant that slices from the wrong end, history[-10:]
CropHistoryWrongEnd(h) ==
    LET s == SortDesc(h)
    IN  IF Len(s) > HistoryCap THEN SubSeq(s, Len(s) - HistoryCap + 1, Len(s)) ELSE s

\* _crop_history
CropHistory(h) ==
    LET s == SortDesc(h)
    IN  IF Len(s) > HistoryCap THEN SubSeq(s, 1, HistoryCap) ELSE s

\* _load_history: does the loop over the lines raise ValueError
LoadRaises(configured, file) ==
    /\ configured
    /\ file.exists
    /\ file.lines # <<>>
    /\ file.lines[1] = HeaderLine
    /\ \E i \in 2..Len(file.lines) : file.lines[i].kind \in {"header", "badnum", "badtime"}

\* _load_history: the reports appended to self.history before the crop
RECURSIVE ParseRows(_)
ParseRows(lines) ==
    IF lines = <<>> THEN <<>>
    ELSE IF lines[1].kind # "row" THEN ParseRows(Tail(lines))
    ELSE <<Report({[c \in ColumnSet |-> Rat(lines[1].vals[c], 100)]},
                  {Strptime(lines[1].sec)}, now)>> \o ParseRows(Tail(lines))

\* the variant that reads the rows without comparing the first line
LoadRowsWithoutHeaderCheck(configured, file) ==
    IF ~configured \/ ~file.exists THEN <<>>
    ELSE IF file.lines = <<>> THEN <<>>
    ELSE ParseRows(Tail(file.lines))

LoadRows(configured, file) ==
    IF ~configured \/ ~file.exists THEN <<>>
    ELSE IF file.lines = <<>> \/ file.lines[1] # HeaderLine THEN <<>>
    ELSE ParseRows(Tail(file.lines))

\* the variant that writes the header on every flush
WriteLogHeaderEveryTime(file, row) ==
    File((IF file.exists THEN file.lines ELSE <<>>) \o <<HeaderLine, row>>)

\* the log write of sched_callback: the header if the file does not exist,
\* then the row appended
WriteLog(file, row) ==
    IF ~file.exists THEN File(<<HeaderLine, row>>) ELSE File(Append(file.lines, row))

\* Application.__init__ of a new process over the same log file
Restart ==
    /\ schedPc = "idle"
    /\ appUp' = ~LoadRaises(logConfigured, logFile)
    /\ current' = Report({}, {}, now)
    /\ buffer' = <<>>
    /\ appended' = IF appUp' THEN LoadRows(logConfigured, logFile) ELSE <<>>
    /\ history' = CropHistory(appended')
    /\ op' = "restart"
    /\ UNCHANGED <<logConfigured, logFile, now, flushes, logWasAbsent>>
    /\ UNCHANGED <<pollVars, schedVars>>
    /\ UNCHANGED <<pollObs, parseVars, influxVars>>

\* Application.callback
callback ==
    /\ appUp
    /\ Len(buffer) < MaxBuf
    /\ \E v \in RawValues :
          LET report == Report({v}, {}, now)
          IN  /\ current' = report
              /\ buffer' = Append(buffer, report)
    /\ op' = "app_callback"
    /\ UNCHANGED <<appUp, history, logConfigured, logFile, now, appended, flushes,
                   logWasAbsent>>
    /\ UNCHANGED <<pollVars, schedVars>>
    /\ UNCHANGED <<pollObs, parseVars, influxVars>>

\* the variant without the early return on an empty buffer: it goes on to
\* the log file
sched_callback_without_early_return ==
    /\ appUp
    /\ schedPc = "idle"
    /\ IF buffer = <<>>
       THEN /\ op' = "sched_callback_noop"
            /\ logFile' = IF logConfigured /\ ~logFile.exists
                          THEN File(<<HeaderLine>>) ELSE logFile
            /\ UNCHANGED <<buffer, history, now, appended, flushes>>
       ELSE /\ now < MaxTime
            /\ LET avg == [c \in ColumnSet |-> MeanOf(buffer, c)]
               IN  /\ history' = CropHistory(Append(history, Report({avg}, {}, now)))
                   /\ appended' = Append(appended, Report({avg}, {}, now))
                   /\ IF logConfigured
                      THEN \E row \in FormatRow(Strftime(now), avg) :
                              logFile' = WriteLog(logFile, row)
                      ELSE logFile' = logFile
                   /\ flushes' = Append(flushes, [sec |-> Strftime(now), average |-> avg,
                                                  n |-> Len(buffer)])
            /\ buffer' = <<>>
            /\ now' = now + 1
            /\ op' = "sched_callback"
    /\ UNCHANGED <<appUp, current, logConfigured, logWasAbsent>>
    /\ UNCHANGED <<pollVars, schedVars>>
    /\ UNCHANGED <<pollObs, parseVars, influxVars>>

\* Application.sched_callback, run without interruption
sched_callback ==
    /\ appUp
    /\ schedPc = "idle"
    /\ IF buffer = <<>>
       THEN /\ op' = "sched_callback_noop"
            /\ UNCHANGED <<buffer, history, logFile, now, appended, flushes>>
       ELSE /\ now < MaxTime
            /\ LET avg == [c \in ColumnSet |-> MeanOf(buffer, c)]
               IN  /\ history' = CropHistory(Append(history, Report({avg}, {}, now)))
                   /\ appended' = Append(appended, Report({avg}, {}, now))
                   /\ IF logConfigured
                      THEN \E row \in FormatRow(Strftime(now), avg) :
                              logFile' = WriteLog(logFile, row)
                      ELSE logFile' = logFile
                   /\ flushes' = Append(flushes, [sec |-> Strftime(now), average |-> avg,
                                                  n |-> Len(buffer)])
            /\ buffer' = <<>>
            /\ now' = now + 1
            /\ op' = "sched_callback"
    /\ UNCHANGED <<appUp, current, logConfigured, logWasAbsent>>
    /\ UNCHANGED <<pollVars, schedVars>>
    /\ UNCHANGED <<pollObs, parseVars, influxVars>>

-----------------------------------------------------------------------------
(* sched_callback on the scheduler's thread, statement by statement, while
   the polling thread runs Application.callback *)

\* if len(self.buffer) == 0: return
SchedBegin ==
    /\ appUp
    /\ schedPc = "idle"
    /\ IF buffer = <<>>
       THEN /\ op' = "sched_callback_noop"
            /\ UNCHANGED schedVars
       ELSE /\ schedPc' = "mean"
            /\ schedK' = 1
            /\ op' = "sched_begin"
            /\ UNCHANGED <<average, timeStr, averagedOver, clearedLen>>
    /\ UNCHANGED <<pollVars, appVars>>
    /\ UNCHANGED <<pollObs, parseVars, influxVars>>

\* one column of the dict comprehension over COLUMNS
SchedMean ==
    /\ schedPc = "mean"
    /\ average' = [average EXCEPT ![COLUMNS[schedK]] = MeanOf(buffer, COLUMNS[schedK])]
    /\ averagedOver' = [averagedOver EXCEPT ![COLUMNS[schedK]] = Len(buffer)]
    /\ IF schedK = Len(COLUMNS)
       THEN schedPc' = "history" /\ schedK' = schedK
       ELSE schedPc' = "mean" /\ schedK' = schedK + 1
    /\ op' = "sched_mean"
    /\ UNCHANGED <<timeStr, clearedLen>>
    /\ UNCHANGED <<pollVars, appVars>>
    /\ UNCHANGED <<pollObs, parseVars, influxVars>>

\* the time string, then self.history.append(Report(average)) and the crop
SchedHistory ==
    /\ schedPc = "history"
    /\ now < MaxTime
    /\ timeStr' = Strftime(now)
    /\ history' = CropHistory(Append(history, Report({average}, {}, now)))
    /\ appended' = Append(appended, Report({average}, {}, now))
    /\ now' = now + 1
    /\ schedPc' = "log"
    /\ op' = "sched_history"
    /\ UNCHANGED <<appUp, current, buffer, logConfigured, logFile, flushes, logWasAbsent>>
    /\ UNCHANGED <<schedK, average, averagedOver, clearedLen>>
    /\ UNCHANGED pollVars
    /\ UNCHANGED <<pollObs, parseVars, influxVars>>

\* the log file
SchedLog ==
    /\ schedPc = "log"
    /\ IF logConfigured
       THEN \E row \in FormatRow(timeStr, average) : logFile' = WriteLog(logFile, row)
       ELSE logFile' = logFile
    /\ flushes' = Append(flushes, [sec |-> timeStr, average |-> average,
                                   n |-> averagedOver[COLUMNS[Len(COLUMNS)]]])
    /\ schedPc' = "clear"
    /\ op' = "sched_log"
    /\ UNCHANGED <<appUp, current, buffer, history, logConfigured, now, appended,
                   logWasAbsent>>
    /\ UNCHANGED <<schedK, average, timeStr, averagedOver, clearedLen>>
    /\ UNCHANGED pollVars
    /\ UNCHANGED <<pollObs, parseVars, influxVars>>

\* self.buffer.clear()
SchedClear ==
    /\ schedPc = "clear"
    /\ clearedLen' = Len(buffer)
    /\ buffer' = <<>>
    /\ schedPc' = "idle"
    /\ op' = "sched_clear"
    /\ UNCHANGED <<appUp, current, history, logConfigured, logFile, now, appended,
                   flushes, logWasAbsent>>
    /\ UNCHANGED <<schedK, average, timeStr, averagedOver>>
    /\ UNCHANGED pollVars
    /\ UNCHANGED <<pollObs, parseVars, influxVars>>

-----------------------------------------------------------------------------
(* Initial states and specifications *)

PriorRow(k) == Line("row", k \div 2, [c \in ColumnSet |-> 100 * k])

PriorLog(n) == File(<<HeaderLine>> \o [k \in 1..n |-> PriorRow(k)])

\* the log files an Application may find when it is constructed
InitLogs ==
    {AbsentFile, File(<<>>)}
    \cup {PriorLog(n) : n \in {0, HistoryCap - 1, HistoryCap, MaxPriorRows}}
    \cup { File(<<Line("short", 0, NoVals), PriorRow(1)>>),
           File(<<HeaderLine, PriorRow(1), Line("short", 0, NoVals), PriorRow(2)>>),
           File(<<HeaderLine, PriorRow(1), Line("badnum", 0, NoVals)>>),
           File(<<HeaderLine, Line("badtime", 0, NoVals), PriorRow(1)>>),
           File(<<PriorRow(1), Line("badnum", 0, NoVals), PriorRow(2)>>),
           File(<<Line("badnum", 0, NoVals), Line("badtime", 0, NoVals),
                  PriorRow(1)>>) }

SchedInit ==
    /\ schedPc = "idle"
    /\ schedK = 1
    /\ average = ZeroValues
    /\ timeStr = 0
    /\ averagedOver = [c \in ColumnSet |-> 0]
    /\ clearedLen = 0

\* the state Application.__init__ leaves
AppInit ==
    /\ logConfigured \in BOOLEAN
    /\ logFile \in IF logConfigured THEN InitLogs ELSE {AbsentFile}
    /\ logWasAbsent = ~logFile.exists
    /\ now = StartTime
    /\ appUp = ~LoadRaises(logConfigured, logFile)
    /\ current = Report({}, {}, now)
    /\ buffer = <<>>
    /\ appended = IF appUp THEN LoadRows(logConfigured, logFile) ELSE <<>>
    /\ history = CropHistory(appended)
    /\ flushes = <<>>

\* process_data not in use
ParseIdle ==
    /\ pdIn = FieldsA
    /\ pdOut = {}

\* no Influx object in use
InfluxIdle ==
    /\ infClient = FALSE
    /\ infQueue = <<>>
    /\ infClosing = FALSE
    /\ infPc = "idle"
    /\ infHeld = {}
    /\ infStop = "no"
    /\ infWritten = <<>>
    /\ infHanded = <<>>

\* the polling thread alone: the callback it is given only records its argument
SpecPollInit ==
    /\ PollInit
    /\ ParseIdle
    /\ InfluxIdle
    /\ SchedInit
    /\ logConfigured = FALSE
    /\ logFile = AbsentFile
    /\ logWasAbsent = TRUE
    /\ now = StartTime
    /\ appUp = TRUE
    /\ current = Report({}, {}, now)
    /\ buffer = <<>>
    /\ appended = <<>>
    /\ history = <<>>
    /\ flushes = <<>>
    /\ op = "init"

SpecPoll == SpecPollInit /\ [][PollNext]_vars

\* the Application with each handler run to completion
Init ==
    /\ PollInit
    /\ location = FALSE
    /\ ParseIdle
    /\ InfluxIdle
    /\ SchedInit
    /\ AppInit
    /\ op = "init"

Next ==
    \/ callback
    \/ sched_callback
    \/ Restart

Spec == Init /\ [][Next]_vars

\* the Application with callback and sched_callback on two threads
ConcNext ==
    \/ callback
    \/ SchedBegin
    \/ SchedMean
    \/ SchedHistory
    \/ SchedLog
    \/ SchedClear

SpecConc == Init /\ [][ConcNext]_vars

-----------------------------------------------------------------------------
(* process_data over a range of reading frames *)

\* the Application part when no Application is in use
AppIdle ==
    /\ logConfigured = FALSE
    /\ logFile = AbsentFile
    /\ logWasAbsent = TRUE
    /\ now = StartTime
    /\ appUp = TRUE
    /\ current = Report({}, {}, now)
    /\ buffer = <<>>
    /\ appended = <<>>
    /\ history = <<>>
    /\ flushes = <<>>

\* the field values of the reading frames tried: frequencies on both sides
\* of and at LowFreq, periods zero and positive
SkyInputs == {Rat(1980, 100), RInt(21)}
FreqInputs == {Rat(40, 100), Rat(1250, 100), Rat(2999, 100), RInt(LowFreq),
               Rat(3001, 100)}
TicksInputs == {RInt(0), RInt(125278)}
PeriodInputs == {RInt(0), Rat(2, 100), Rat(25, 10)}
TempInputs == {Rat(248, 10), RInt(10)}

FrameFields ==
    [sky : SkyInputs, freq : FreqInputs, ticks : TicksInputs, period : PeriodInputs,
     temp : TempInputs]

\* process_data(msg) for the frame at hand
process_data ==
    /\ pdOut = {}
    /\ pdOut' = {ProcessData(pdIn)}
    /\ op' = "process_data"
    /\ UNCHANGED pdIn
    /\ UNCHANGED <<pollVars, pollObs, appVars, schedVars, influxVars>>

\* the next reading frame arrives
NextFrame ==
    /\ pdOut # {}
    /\ pdIn' \in FrameFields
    /\ pdOut' = {}
    /\ op' = "next_frame"
    /\ UNCHANGED <<pollVars, pollObs, appVars, schedVars, influxVars>>

SpecParseInit ==
    /\ PollInit
    /\ location = FALSE
    /\ SchedInit
    /\ AppIdle
    /\ InfluxIdle
    /\ pdIn \in FrameFields
    /\ pdOut = {}
    /\ op = "init"

ParseNext ==
    \/ process_data
    \/ NextFrame

SpecParse == SpecParseInit /\ [][ParseNext]_vars

-----------------------------------------------------------------------------
(* Influx (sqm/influx.py): the export queue and its sending thread *)

\* the record write_api.write is given for a report
Record(report) ==
    [skymag |-> report.values["sky_brightness"], time |-> Strftime(report.time)]

\* Influx.start
InfluxStart ==
    /\ infPc = "idle"
    /\ infPc' = "enter"
    /\ op' = "influx_start"
    /\ UNCHANGED <<infClient, infQueue, infClosing, infHeld, infStop, infWritten,
                   infHanded>>
    /\ UNCHANGED <<pollVars, pollObs, appVars, schedVars, parseVars>>

\* Influx.stop up to the join
InfluxStop ==
    /\ infPc # "idle"
    /\ infStop = "no"
    /\ infClosing' = TRUE
    /\ infStop' = "joining"
    /\ op' = "influx_stop"
    /\ UNCHANGED <<infClient, infQueue, infPc, infHeld, infWritten, infHanded>>
    /\ UNCHANGED <<pollVars, pollObs, appVars, schedVars, parseVars>>

\* self._thread.join() returns once the thread has ended
InfluxStopJoin ==
    /\ infStop = "joining"
    /\ infPc \in {"done", "dead"}
    /\ infStop' = "returned"
    /\ op' = "influx_stop_returned"
    /\ UNCHANGED <<infClient, infQueue, infClosing, infPc, infHeld, infWritten,
                   infHanded>>
    /\ UNCHANGED <<pollVars, pollObs, appVars, schedVars, parseVars>>

\* Influx.__call__(report): the queue is unbounded, put never waits
InfluxCall ==
    /\ Len(infHanded) < MaxReports
    /\ \E v \in RawValues :
          LET report == Report({v}, {}, StartTime + Len(infHanded))
          IN  IF infClient
              THEN /\ infQueue' = Append(infQueue, report)
                   /\ infHanded' = Append(infHanded, report)
              ELSE UNCHANGED <<infQueue, infHanded>>
    /\ op' = "influx_call"
    /\ UNCHANGED <<infClient, infClosing, infPc, infHeld, infStop, infWritten>>
    /\ UNCHANGED <<pollVars, pollObs, appVars, schedVars, parseVars>>

\* _send_measurements up to the loop: return without a client
SendEnter ==
    /\ infPc = "enter"
    /\ infPc' = IF infClient THEN "loop" ELSE "done"
    /\ op' = "send_enter"
    /\ UNCHANGED <<infClient, infQueue, infClosing, infHeld, infStop, infWritten,
                   infHanded>>
    /\ UNCHANGED <<pollVars, pollObs, appVars, schedVars, parseVars>>

\* while not self._closing.is_set()
SendLoop ==
    /\ infPc = "loop"
    /\ infPc' = IF infClosing THEN "done" ELSE "get"
    /\ op' = "send_loop"
    /\ UNCHANGED <<infClient, infQueue, infClosing, infHeld, infStop, infWritten,
                   infHanded>>
    /\ UNCHANGED <<pollVars, pollObs, appVars, schedVars, parseVars>>

\* report = self._queue.get(): waits until the queue holds a report
SendGet ==
    /\ infPc = "get"
    /\ infQueue # <<>>
    /\ infHeld' = {Head(infQueue)}
    /\ infQueue' = Tail(infQueue)
    /\ infPc' = "write"
    /\ op' = "send_get"
    /\ UNCHANGED <<infClient, infClosing, infStop, infWritten, infHanded>>
    /\ UNCHANGED <<pollVars, pollObs, appVars, schedVars, parseVars>>

\* write_api.write(...): it returns, raises one of the two exceptions the
\* except clause names, or raises any other exception
SendWrite ==
    /\ infPc = "write"
    /\ \E report \in infHeld :
          \/ /\ infWritten' = Append(infWritten,
                                     [report |-> report, record |-> Record(report)])
             /\ infPc' = "loop"
             /\ op' = "send_written"
             /\ UNCHANGED infQueue
          \/ /\ infQueue' = Append(infQueue, report)
             /\ infPc' = "sleep"
             /\ op' = "send_requeued"
             /\ UNCHANGED infWritten
          \/ /\ infPc' = "dead"
             /\ op' = "send_died"
             /\ UNCHANGED <<infQueue, infWritten>>
    /\ infHeld' = {}
    /\ UNCHANGED <<infClient, infClosing, infStop, infHanded>>
    /\ UNCHANGED <<pollVars, pollObs, appVars, schedVars, parseVars>>

\* time.sleep(10)
SendSleep ==
    /\ infPc = "sleep"
    /\ infPc' = "loop"
    /\ op' = "send_sleep"
    /\ UNCHANGED <<infClient, infQueue, infClosing, infHeld, infStop, infWritten,
                   infHanded>>
    /\ UNCHANGED <<pollVars, pollObs, appVars, schedVars, parseVars>>

\* the state Influx.__init__ leaves, with and without a client
SpecInfluxInit ==
    /\ PollInit
    /\ location = FALSE
    /\ SchedInit
    /\ AppIdle
    /\ ParseIdle
    /\ infClient \in BOOLEAN
    /\ infQueue = <<>>
    /\ infClosing = FALSE
    /\ infPc = "idle"
    /\ infHeld = {}
    /\ infStop = "no"
    /\ infWritten = <<>>
    /\ infHanded = <<>>
    /\ op = "init"

InfluxNext ==
    \/ InfluxStart
    \/ InfluxStop
    \/ InfluxStopJoin
    \/ InfluxCall
    \/ SendEnter
    \/ SendLoop
    \/ SendGet
    \/ SendWrite
    \/ SendSleep

SpecInflux == SpecInfluxInit /\ [][InfluxNext]_vars

\* The export with its scheduling: the sending thread takes every step it
\* is able to take, a write returns or raises, a sleep ends, and a join
\* returns once the thread has ended. Nothing obliges anyone to start or
\* stop the export or to hand over another report.
InfluxFairness ==
    /\ WF_vars(SendEnter)
    /\ WF_vars(SendLoop)
    /\ WF_vars(SendGet)
    /\ WF_vars(SendWrite)
    /\ WF_vars(SendSleep)
    /\ WF_vars(InfluxStopJoin)

SpecInfluxFair == SpecInfluxInit /\ [][InfluxNext]_vars /\ InfluxFairness

-----------------------------------------------------------------------------
(* Properties of the polling thread, checked under SpecPoll *)

\* C1: the callback is invoked only for a poll cycle whose reading request
\* returned a parsed 'r' frame, never for one whose request failed.
C1_CallbackOnlyForParsedFrame == op = "callback" => cbParsed

\* C2: no transport, protocol or parse failure during steady-state polling
\* ends the polling thread; only a stop request does.
C2_FailureNeverEndsPolling == endedBy # "polling"

\* C3: when stop_polling has returned, the polling thread has ended and the
\* serial connection is not open.
C3_StopLeavesThreadEndedPortClosed ==
    stopState = "returned" => (pc \in {"done", "dead"} /\ conn # "open")

\* C4: a failed connection attempt never decreases the backoff delay while
\* the delay is below the maximum, and a successful connect leaves the
\* failure counter at 0 and the delay at the minimum.
C4_BackoffMonotoneThenReset ==
    [][ /\ (op' = "connect_failed" /\ sleep_time < MaxThreadSleep)
            => sleep_time' >= sleep_time
        /\ op' = "connect_ok"
            => (serial_errors' = 0 /\ sleep_time' = ThreadSleep) ]_vars

\* a run of consecutive failures that has carried the delay up to the maximum
C4_Witness ==
    /\ op = "connect_failed"
    /\ serial_errors = BackoffEvery * BackoffEvery
    /\ sleep_time >= MaxThreadSleep

\* C5: the backoff delay always lies between the configured minimum and the
\* configured maximum.
C5_DelayWithinMinAndMax ==
    ThreadSleep <= sleep_time /\ sleep_time <= MaxThreadSleep

-----------------------------------------------------------------------------
(* Properties of the Application *)

\* C6 (under SpecConc): a flush removes from the buffer exactly the reports
\* that were part of every mean it computed.
C6_FlushClearsWhatItAveraged ==
    op = "sched_clear" => \A c \in ColumnSet : averagedOver[c] = clearedLen

Min(a, b) == IF a < b THEN a ELSE b

\* C7: the history holds at most 10 reports, newest first, and they are the
\* newest of all reports ever appended (loaded or flushed).
C7_HistoryBoundedSortedNewest ==
    /\ Len(history) <= HistoryCap
    /\ Len(history) = Min(HistoryCap, Len(appended))
    /\ \A i \in 1..(Len(history) - 1) : history[i].time >= history[i + 1].time
    /\ \A i \in 1..Len(history) : \E j \in 1..Len(appended) : appended[j] = history[i]
    /\ Len(appended) > HistoryCap =>
         LET oldest == history[Len(history)].time
         IN  Cardinality({j \in 1..Len(appended) : appended[j].time > oldest})
               = Cardinality({i \in 1..Len(history) : history[i].time > oldest})

\* a flush onto a loaded history that was already full
C7_Witness ==
    /\ op = "sched_callback"
    /\ Len(appended) > HistoryCap + 1
    /\ Len(history) = HistoryCap

RMul(a, b) == Rat(a[1] * b[1], a[2] * b[2])

RemoveAt(s, i) == SubSeq(s, 1, i - 1) \o SubSeq(s, i + 1, Len(s))

\* C8: a flush of a non-empty buffer empties the buffer and adds to the
\* history exactly one report, each of whose four values times the number of
\* buffered reports is the sum of that field over the buffer.
C8_FlushAddsTheMean ==
    [][ (op' = "sched_callback" /\ buffer # <<>>) =>
          /\ buffer' = <<>>
          /\ Len(history') = Min(Len(history) + 1, HistoryCap)
          /\ \E i \in 1..Len(history') :
                /\ \A c \in ColumnSet :
                      RMul(history'[i].values[c], RInt(Len(buffer))) = SumOf(buffer, c)
                /\ RemoveAt(history', i) = SubSeq(history, 1, Len(history') - 1) ]_vars

\* two buffered reports with sky_brightness 19 and 21 were flushed to 20
C8_Witness ==
    /\ op = "sched_callback"
    /\ flushes # <<>>
    /\ flushes[Len(flushes)].n = 2
    /\ buffer = <<>>
    /\ history # <<>>
    /\ history[1].values["sky_brightness"] = RInt(20)

\* C9: sched_callback on an empty buffer leaves the history, the current
\* reading and the log file (and whether it exists) as they were.
C9_EmptyFlushChangesNothing ==
    [][ op' = "sched_callback_noop" => UNCHANGED <<history, current, logFile>> ]_vars

\* sched_callback ran on an empty buffer while the configured log did not exist
C9_Witness ==
    /\ op = "sched_callback_noop"
    /\ logConfigured
    /\ ~logFile.exists

\* the log of a run that started without a log file: nothing before the
\* first non-empty flush, then the header and one row per non-empty flush
LogMatchesFlushes ==
    IF flushes = <<>>
    THEN ~logFile.exists
    ELSE /\ logFile.exists
         /\ Len(logFile.lines) = Len(flushes) + 1
         /\ logFile.lines[1] = HeaderLine
         /\ \A i \in 1..Len(flushes) :
               /\ logFile.lines[i + 1].kind = "row"
               /\ logFile.lines[i + 1].sec = flushes[i].sec
               /\ \A c \in ColumnSet :
                     logFile.lines[i + 1].vals[c] \in Round2(flushes[i].average[c])

\* C10: with a log file configured and initially absent, the file is the
\* header line followed by one data row per non-empty flush in flush order,
\* and a step only ever appends to an existing file.
C10_LogIsHeaderThenRows ==
    /\ []((logConfigured /\ logWasAbsent) => LogMatchesFlushes)
    /\ [][ logFile.exists =>
             /\ logFile'.exists
             /\ Len(logFile'.lines) >= Len(logFile.lines)
             /\ SubSeq(logFile'.lines, 1, Len(logFile.lines)) = logFile.lines ]_vars

\* two non-empty flushes into a log that did not exist at the start
C10_Witness ==
    /\ logConfigured
    /\ logWasAbsent
    /\ Len(flushes) = 2
    /\ logFile.exists

-----------------------------------------------------------------------------
(* C11: the log round trip *)

\* the hundredths nearest to x (both neighbours on an exact tie)
NearestHundredths(x) ==
    LET q == (100 * x[1]) \div x[2]
    IN  {h \in {q, q + 1} : 2 * Abs(100 * x[1] - h * x[2]) <= x[2]}

\* history entry j is what flush i wrote: its second, and per field the
\* average rounded to two decimals
HistoryHoldsFlush(i, j) ==
    /\ history[j].time = Strptime(flushes[i].sec)
    /\ \A c \in ColumnSet :
          \E h \in NearestHundredths(flushes[i].average[c]) :
             history[j].values[c] = Rat(h, 100)

\* the line of the log that flush i appended
FlushRowPos(i) == Len(logFile.lines) - Len(flushes) + i

\* how many data rows of the log the stable newest-first sort puts before
\* the row of flush i
RowsAhead(i) ==
    Cardinality({k \in 1..Len(logFile.lines) :
        /\ logFile.lines[k].kind = "row"
        /\ \/ logFile.lines[k].sec > flushes[i].sec
           \/ logFile.lines[k].sec = flushes[i].sec /\ k < FlushRowPos(i)})

\* C11 as stated: after a flush wrote a row to the log, an Application
\* constructed on that log has a history entry holding the row's values,
\* the written averages rounded to two decimals.
C11_ReloadYieldsTheWrittenReport ==
    (op = "restart" /\ logConfigured /\ flushes # <<>>)
        => \A i \in 1..Len(flushes) :
              \E j \in 1..Len(history) : HistoryHoldsFlush(i, j)

\* C11 amended: the same, for a log that begins with the expected header
\* (it was absent before the first flush, or already had one) and for a row
\* that fewer than HistoryCap rows precede in the newest-first order.
C11_ReloadOfValidLogYieldsTheWrittenReport ==
    (/\ op = "restart"
     /\ logConfigured
     /\ flushes # <<>>
     /\ logFile.lines[1] = HeaderLine)
        => \A i \in 1..Len(flushes) :
              \/ RowsAhead(i) >= HistoryCap
              \/ \E j \in 1..Len(history) : HistoryHoldsFlush(i, j)

\* a reload after two flushes into a log that already held HistoryCap rows,
\* one of the flushes having written a value with two significant decimals
C11_Witness ==
    /\ op = "restart"
    /\ logConfigured
    /\ ~logWasAbsent
    /\ Len(logFile.lines) > HistoryCap + 2
    /\ logFile.lines[1] = HeaderLine
    /\ Len(flushes) = 2
    /\ \E i \in 1..2 : flushes[i].average["temp_sensor"] = Rat(2481, 100)
    /\ \E j \in 1..Len(history) : HistoryHoldsFlush(2, j)

-----------------------------------------------------------------------------
(* C12: a log without the expected header *)

\* the first line of the log file is not the expected header
HeaderMismatch ==
    /\ logConfigured
    /\ logFile.exists
    /\ (logFile.lines = <<>> \/ logFile.lines[1] # HeaderLine)

\* C12: constructing the Application on a log file whose first line is not
\* exactly the expected header does not raise and leaves the history empty,
\* whatever the other lines are.
C12_HeaderMismatchLoadsNothing ==
    (op \in {"init", "restart"} /\ HeaderMismatch)
        => (appUp /\ history = <<>> /\ appended = <<>>)

\* a construction on a log whose first line is not the header and whose
\* later lines hold a well-formed row and a field float() rejects
C12_Witness ==
    /\ op = "restart"
    /\ HeaderMismatch
    /\ \E i, k \in 2..Len(logFile.lines) :
          /\ logFile.lines[i].kind = "row"
          /\ logFile.lines[k].kind = "badnum"
    /\ appUp
    /\ history = <<>>

-----------------------------------------------------------------------------
(* C13: the low-frequency rule of process_data *)

\* C13: process_data outputs freq_sensor = 1 / period when the frame's
\* frequency is below 30 and its period is above 0, the frame's frequency
\* when the frequency is 30 or more or the period is 0, and the frame's
\* temperature, tick count and sky brightness unchanged.
C13_LowFrequencyUsesPeriod ==
    \A o \in pdOut :
       LET low == pdIn.freq[1] < 30 * pdIn.freq[2]
           pos == pdIn.period[1] > 0
       IN  /\ (low /\ pos) => RMul(o["freq_sensor"], pdIn.period) = RInt(1)
           /\ (~low \/ pdIn.period[1] = 0) => o["freq_sensor"] = pdIn.freq
           /\ o["temp_sensor"] = pdIn.temp
           /\ o["ticks_uC"] = pdIn.ticks
           /\ o["sky_brightness"] = pdIn.sky

\* a frame with frequency 29.99 and period 0.02 parsed to frequency 50
C13_Witness ==
    /\ op = "process_data"
    /\ pdIn.freq = Rat(2999, 100)
    /\ pdIn.period = Rat(2, 100)
    /\ \E o \in pdOut : o["freq_sensor"] = RInt(50) /\ o["ticks_uC"] = pdIn.ticks

-----------------------------------------------------------------------------
(* C14: the export queue loses nothing *)

\* C14: with a client configured, every report handed to the Influx object
\* has been written, is in the queue, or is the one the sending thread is
\* delivering at the moment; a failed delivery puts it back into the queue.
C14_HandedIsWrittenOrQueued ==
    infClient =>
        \A k \in 1..Len(infHanded) :
           \/ \E w \in 1..Len(infWritten) : infWritten[w].report = infHanded[k]
           \/ \E q \in 1..Len(infQueue) : infQueue[q] = infHanded[k]
           \/ infPc = "write" /\ infHeld = {infHanded[k]}

-----------------------------------------------------------------------------
(* C15: the retry budget of one request *)

\* C15: the reading request the loop makes with retry budget PollTries
\* writes its command at most PollTries + 1 times before it returns.
C15_AtMostTriesPlusOneSends ==
    pc = "read" => sent <= PollTries + 1

-----------------------------------------------------------------------------
(* C16: no reading request before initialization *)

\* C16: when the loop makes its reading request, the identification reply
\* and the calibration reply have both been accepted on the connection in
\* use.
C16_ReadingOnlyAfterIdAndCalibration ==
    (op = "poll_check" /\ pc = "read") => {"i", "c"} \subseteq inited

-----------------------------------------------------------------------------
(* C17: a frame is accepted by its leading tag *)

\* C17: a frame that read_metadata, read_calibration or read_data accepts
\* (hands to process_*) begins with the tag 'i', 'c' or 'r' of that request.
C17_AcceptedFrameLeadsWithTag ==
    \A a \in accepted : a.lead = a.kind

-----------------------------------------------------------------------------
(* C18: construction on a damaged log *)

\* C18: constructing the Application with an existing log file does not
\* raise, whatever follows a valid header.
C18_ConstructionNeverRaises ==
    (/\ op \in {"init", "restart"}
     /\ logConfigured
     /\ logFile.exists
     /\ logFile.lines # <<>>
     /\ logFile.lines[1] = HeaderLine) => appUp

-----------------------------------------------------------------------------
(* C19: the daylight gate *)

\* C19: a poll cycle that starts with the sun above max_sun_alt (a location
\* being configured) ends where it began: no connection opened or closed,
\* nothing written to or read from the serial link, no callback, and the
\* failure counter and the backoff delay as they were.
C19_SunGateCycleTouchesNothing ==
    [][ op' = "sun_gate" =>
          /\ location
          /\ pc' = "loop"
          /\ stack' = <<>>
          /\ UNCHANGED <<conn, ret, sent, inited, cbReport, cbParsed, serial_errors,
                         sleep_time>> ]_vars

\* a gated cycle while the port is not open, after enough failed connection
\* attempts to have raised the delay
C19_Witness ==
    /\ op = "sun_gate"
    /\ location
    /\ pc = "loop"
    /\ conn = "none"
    /\ serial_errors >= BackoffEvery
    /\ sleep_time > ThreadSleep

-----------------------------------------------------------------------------
(* C20: every report has the four fields *)

Range(s) == {s[i] : i \in 1..Len(s)}

\* every Report the program holds: the current reading, the buffer, the
\* history, the argument of the polling thread's callback, and what was
\* handed to the export
ReportsHeld ==
    {current} \cup Range(buffer) \cup Range(history) \cup Range(appended)
    \cup cbReport \cup Range(infQueue) \cup infHeld \cup Range(infHanded)

\* C20: the values mapping of every Report the program holds has exactly
\* the fields temp_sensor, freq_sensor, ticks_uC and sky_brightness.
C20_ReportsHaveTheFourFields ==
    \A r \in ReportsHeld :
       DOMAIN r.values = {"temp_sensor", "freq_sensor", "ticks_uC", "sky_brightness"}

\* a raw report in the buffer and as current reading, next to a history of
\* HistoryCap entries that holds loaded rows and an average of this run
C20_Witness ==
    /\ op = "app_callback"
    /\ buffer # <<>>
    /\ current = buffer[Len(buffer)]
    /\ Len(history) = HistoryCap
    /\ flushes # <<>>
    /\ ~logWasAbsent

-----------------------------------------------------------------------------
(* C21: stopping the export *)

\* C21: once Influx.stop() has been called after start(), it eventually
\* returns, whatever the sending thread is doing at that moment and even
\* if no further report is handed over.
C21_StopEventuallyReturns ==
    (infStop = "joining") ~> (infStop = "returned")

====
